---- MODULE Spec2Model ----
(***************************************************************************)
(* The period and professor dialogs of the administration application:     *)
(* the zod schemas that validate their field mappings and the submit       *)
(* handlers that send a validated entity to the data service.              *)
(*                                                                         *)
(* JavaScript values that may be of more than one type are tagged records: *)
(* [t |-> "undefined"], [t |-> "date", day |-> n], [t |-> "number", ...],  *)
(* [t |-> "string", s |-> ...].  Fields that are only ever strings are     *)
(* strings; the two pattern-checked fields (cedula, email) are sequences   *)
(* of one-character strings so that the patterns can read them.            *)
(***************************************************************************)
EXTENDS Integers, Sequences, FiniteSets, TLC

\* ------------------------------------------------------------------ bounds
\* Calendar days are numbered up to MaxDay (an ordinal scale: only their
\* order matters); day Epoch is 2000-01-01 and day 0 is a day before it.
MaxDay == 4
Epoch == 1
\* Fields of one form instance that differ from its default values at a time.
MaxDirty == 2
\* Submit events one form instance receives.
MaxAttempts == 2

Forms == {"period", "professor"}
Attempts == 1..MaxAttempts
Days == 0..MaxDay

Undefined == [t |-> "undefined"]
Date(d) == [t |-> "date", day |-> d]
Number(n) == [t |-> "number", n |-> n]
\* A number with a fractional part: n + tenths/10, tenths in 1..9.
Decimal(n, tenths) == [t |-> "number", n |-> n, tenths |-> tenths]
NaN == [t |-> "number", nan |-> TRUE]
String(s) == [t |-> "string", s |-> s]

\* ------------------------------------------------------- period schema
PeriodFields ==
    {"id", "name", "year", "trimester", "startDate", "endDate",
     "enrollmentStartDate", "enrollmentEndDate", "isActive"}

\* Number(x) of JavaScript on the inputs of the model: a number is itself,
\* the empty string is 0, a decimal numeral is its value, anything else NaN.
CoerceNumber(x) ==
    IF x.t = "number" THEN x
    ELSE IF x.t = "string" THEN
        CASE x.s = "" -> Number(0)
          [] x.s = "1999" -> Number(1999)
          [] x.s = "2024" -> Number(2024)
          [] x.s = "2024.5" -> Decimal(2024, 5)
          [] x.s = "2101" -> Number(2101)
          [] OTHER -> NaN
    ELSE NaN

\* x < bound and x > bound for a number x and an integer bound.
LessThan(x, bound) == x.n < bound
GreaterThan(x, bound) ==
    \/ x.n > bound
    \/ x.n = bound /\ "tenths" \in DOMAIN x

\* z.coerce.number().min(2000).max(2100)
YearIssues(x) ==
    LET n == CoerceNumber(x) IN
    IF "nan" \in DOMAIN n THEN {<<"year", "invalid_type">>}
    ELSE IF LessThan(n, 2000) THEN {<<"year", "too_small">>}
    ELSE IF GreaterThan(n, 2100) THEN {<<"year", "too_big">>}
    ELSE {}

\* date > startDate of JavaScript: two dates compare by their time, and a
\* comparison with undefined is false.
DateAfter(date, startDate) ==
    /\ date.t = "date"
    /\ startDate.t = "date"
    /\ date.day > startDate.day

\* z.date({required_error}) : undefined is the required error.
DateIssues(field, x) ==
    IF x.t = "date" THEN {} ELSE {<<field, "required">>}

\* z.date(...).refine((date, ctx) => date > ctx.parent[sibling]): the
\* refinement runs when the date itself parsed, whatever the sibling is.
RefinedDateIssues(field, x, sibling) ==
    IF x.t # "date" THEN {<<field, "required">>}
    ELSE IF DateAfter(x, sibling) THEN {}
    ELSE {<<field, "custom">>}

PeriodIssues(v) ==
    UNION {
        IF Len(v.id) < 1 THEN {<<"id", "too_small">>} ELSE {},
        IF Len(v.name) < 3 THEN {<<"name", "too_small">>} ELSE {},
        YearIssues(v.year),
        IF v.trimester \in {"1", "2", "3"} THEN {}
            ELSE {<<"trimester", "invalid_enum_value">>},
        DateIssues("startDate", v.startDate),
        RefinedDateIssues("endDate", v.endDate, v.startDate),
        DateIssues("enrollmentStartDate", v.enrollmentStartDate),
        RefinedDateIssues("enrollmentEndDate", v.enrollmentEndDate,
                          v.enrollmentStartDate)
    }

\* The refine callbacks read ctx.parent.  The validation library is not part
\* of the repository: where it calls the callback with the value alone, ctx
\* is undefined and the read raises a TypeError as soon as a refined date
\* field holds a date.
PeriodRefineRaises(v, hasParent) ==
    /\ ~hasParent
    /\ \/ v.endDate.t = "date"
       \/ v.enrollmentEndDate.t = "date"

\* The entity the schema produces: year coerced, the rest as given.
PeriodParsed(v) == [v EXCEPT !.year = CoerceNumber(v.year)]

\* ---------------------------------------------------- professor schema
ProfessorFields ==
    {"id", "firstName", "lastName", "cedula", "department", "education",
     "specialization", "email", "phone", "hireDateMonth", "hireDateYear",
     "contractType", "status"}

Digits == {"0", "1", "2", "3", "4", "5", "6", "7", "8", "9"}
Letters == {"a", "b", "c", "o", "m", "V", "E"}

\* s without its leading and trailing spaces.
Trim(s) ==
    LET inked == {i \in 1..Len(s) : s[i] # " "} IN
    IF inked = {} THEN <<>>
    ELSE SubSeq(s, CHOOSE i \in inked : \A j \in inked : i <= j,
                   CHOOSE i \in inked : \A j \in inked : j <= i)

\* (variant: the cedula is trimmed before it is matched)
CedulaMatchesTrimmed(s) ==
    LET u == Trim(s) IN
    /\ Len(u) \in {9, 10}
    /\ u[1] \in {"V", "E"}
    /\ u[2] = "-"
    /\ \A i \in 3..Len(u) : u[i] \in Digits

\* /^[VE]-\d{7,8}$/
CedulaMatches(s) ==
    /\ Len(s) \in {9, 10}
    /\ s[1] \in {"V", "E"}
    /\ s[2] = "-"
    /\ \A i \in 3..Len(s) : s[i] \in Digits

\* z.string().email(): one "@"; a local part of letters, digits and
\* _ ' + - . that neither starts nor ends with a dot; a domain of dot-separated
\* labels, the last of at least two letters; no two dots in a row.
EmailMatches(s) ==
    LET ats == {i \in 1..Len(s) : s[i] = "@"}
        at == CHOOSE i \in ats : TRUE
        dots == {i \in (at + 1)..Len(s) : s[i] = "."}
        lastDot == CHOOSE i \in dots : \A j \in dots : j <= i
    IN  /\ Cardinality(ats) = 1
        /\ at > 1
        /\ \A i \in 1..(at - 1) :
              s[i] \in Letters \cup Digits \cup {"_", "'", "+", "-", "."}
        /\ s[1] # "."
        /\ s[at - 1] # "."
        /\ \A i \in 1..(Len(s) - 1) : ~(s[i] = "." /\ s[i + 1] = ".")
        /\ dots # {}
        /\ \A i \in (at + 1)..Len(s) :
              s[i] \in Letters \cup Digits \cup {"-", "."}
        /\ s[at + 1] \in Letters \cup Digits
        /\ \A i \in dots : i < Len(s) /\ s[i + 1] \in Letters \cup Digits
        /\ Len(s) - lastDot >= 2
        /\ \A i \in (lastDot + 1)..Len(s) : s[i] \in Letters

MinIssue(field, s, min) ==
    IF Len(s) < min THEN {<<field, "too_small">>} ELSE {}

ProfessorIssues(v) ==
    UNION {
        MinIssue("id", v.id, 2),
        MinIssue("firstName", v.firstName, 2),
        MinIssue("lastName", v.lastName, 2),
        IF CedulaMatches(v.cedula) THEN {} ELSE {<<"cedula", "invalid_string">>},
        MinIssue("education", v.education, 2),
        MinIssue("specialization", v.specialization, 2),
        IF EmailMatches(v.email) THEN {} ELSE {<<"email", "invalid_string">>},
        MinIssue("phone", v.phone, 10),
        IF v.contractType \in {"tiempo_completo", "tiempo_parcial", "por_hora"}
            THEN {} ELSE {<<"contractType", "invalid_enum_value">>},
        IF v.status \in {"activo", "inactivo", "sabático", "permiso"}
            THEN {} ELSE {<<"status", "invalid_enum_value">>}
    }

\* ------------------------------------------------------------ resolver
\* (variant: a form that is submitted without consulting the schema)
ResolveNoIssues(f, v, hasParent) ==
    [raised |-> FALSE, issues |-> {}, data |-> v]

\* zodResolver(formSchema) on the field mapping v of form f: the issues by
\* field, the parsed entity when there are none, or the fault the schema
\* raised.
Resolve(f, v, hasParent) ==
    IF f = "period" THEN
        IF PeriodRefineRaises(v, hasParent)
        THEN [raised |-> TRUE, issues |-> {}, data |-> v]
        ELSE [raised |-> FALSE, issues |-> PeriodIssues(v),
              data |-> PeriodParsed(v)]
    ELSE [raised |-> FALSE, issues |-> ProfessorIssues(v), data |-> v]

\* ------------------------------------------------------------- state
VARIABLES
    ctxHasParent,   \* whether the library hands refine callbacks a ctx.parent
    mounted,        \* the form instances the page renders
    initialData,    \* [Forms -> record or Undefined]: the initialData prop
    values,         \* [Forms -> record]: the field mapping useForm holds
    isSubmitting,   \* [Forms -> BOOLEAN]: the useState flag
    shown,          \* [Forms -> BOOLEAN]: the flag as last rendered (disabled=)
    isOpen,         \* [Forms -> BOOLEAN]: the isOpen prop the parent holds
    att,            \* [Forms -> [Attempts -> record]]: the submit attempts
    last            \* [Forms -> record]: the attempt that finished last

vars == <<ctxHasParent, mounted, initialData, values, isSubmitting,
          shown, isOpen, att, last>>

\* defaultValues of the period form in create mode: no id, no name, this
\* year, and four dates around today (inscriptions two weeks and one week
\* ago, the period from today to three months from now).
PeriodDefaults ==
    [id |-> "", name |-> "", year |-> Number(2024), trimester |-> "1",
     startDate |-> Date(3), endDate |-> Date(4),
     enrollmentStartDate |-> Date(1), enrollmentEndDate |-> Date(2),
     isActive |-> FALSE]

ProfessorDefaults ==
    [id |-> "", firstName |-> "", lastName |-> "", cedula |-> <<>>,
     department |-> "", education |-> "", specialization |-> "",
     email |-> <<>>, phone |-> "", hireDateMonth |-> "10",
     hireDateYear |-> "2026", contractType |-> "tiempo_completo",
     status |-> "activo"]

\* Records a parent may pass as initialData (edit mode).
PeriodRecord ==
    [id |-> "2024-T1", name |-> "Trimester I 2024", year |-> Number(2024),
     trimester |-> "1", startDate |-> Date(3), endDate |-> Date(4),
     enrollmentStartDate |-> Date(1), enrollmentEndDate |-> Date(2),
     isActive |-> FALSE]

ProfessorRecord ==
    [id |-> "P01", firstName |-> "Ana", lastName |-> "Mora",
     cedula |-> <<"V", "-", "1", "2", "3", "4", "5", "6", "7">>,
     department |-> "informatica", education |-> "MSc",
     specialization |-> "Redes",
     email |-> <<"a", "@", "b", ".", "c", "o">>,
     phone |-> "04121234567", hireDateMonth |-> "0",
     hireDateYear |-> "2020", contractType |-> "tiempo_completo",
     status |-> "activo"]

\* Records of periods that began before 2000 (migrated data).
PeriodRecordsOld ==
    {[PeriodRecord EXCEPT !.id = "1999-T3", !.startDate = Date(0)],
     [PeriodRecord EXCEPT !.id = "1999-T3", !.startDate = Date(0),
                          !.enrollmentStartDate = Date(0)]}

InitialDataOf(f) ==
    IF f = "period" THEN {Undefined, PeriodRecord}
    ELSE {Undefined, ProfessorRecord}

\* (variant: the form always falls back on the blank values)
DefaultValuesBlank(f, data) ==
    IF f = "period" THEN PeriodDefaults ELSE ProfessorDefaults

\* defaultValues: initialData || { ... }
DefaultValues(f, data) ==
    IF data # Undefined THEN data
    ELSE IF f = "period" THEN PeriodDefaults ELSE ProfessorDefaults

\* disabled={(date) => date < new Date("2000-01-01")} of the four calendars.
CalendarDisabled(date) == date.day < Epoch

\* What the calendar of a date field can put into it: a day that is not
\* disabled, or nothing when the selected day is clicked again.
DateInputs ==
    {Undefined} \cup {Date(d) : d \in {e \in Days : ~CalendarDisabled(Date(e))}}

\* What the user of the model types or picks, field by field; the fields not
\* listed are left as they are.
EditDomain(f, field) ==
    IF f = "period" THEN
        CASE field = "id" -> {"", "2024-T1"}
          [] field = "name" -> {"ab", "Trimester I 2024"}
          [] field = "year" -> {String("2024"), String("abc")}
          [] field = "startDate" -> {Undefined, Date(3)}
          [] field = "endDate" -> {Date(3), Date(4)}
          [] OTHER -> {}
    ELSE
        CASE field = "id" -> {"P", "P01"}
          [] field = "cedula" ->
                {<<"V", "-", "1", "2", "3", "4", "5", "6", "7">>,
                 <<"V", "1", "2", "3", "4", "5", "6", "7">>}
          [] field = "email" ->
                {<<"a", "@", "b", ".", "c", "o">>, <<"a", "@", "b">>}
          [] field = "phone" -> {"0412", "04121234567"}
          [] field = "status" -> {"activo", "permiso"}
          [] OTHER -> {}

FieldsOf(f) == IF f = "period" THEN PeriodFields ELSE ProfessorFields

\* An attempt is one run of form.handleSubmit(handleSubmit) for one submit
\* event: where it is, the mapping it read, and what it has done, in order.
\* A finished attempt keeps its place only; what it did is kept in last until
\* the next attempt of the form finishes.
NoAttempt ==
    [pc |-> "unused", snapshot |-> Undefined, check |-> "pending",
     issues |-> {}, entity |-> Undefined, settlement |-> Undefined,
     log |-> <<>>]

DoneAttempt == [NoAttempt EXCEPT !.pc = "done"]

InFlight(f) == {i \in Attempts : att[f][i].pc = "awaiting"}

\* The resolver settles in microtasks of the task that dispatched the submit
\* event: input events, timers, renders and network answers are later tasks.
Quiet(f) == \A i \in Attempts : att[f][i].pc # "validating"

Init ==
    /\ ctxHasParent \in BOOLEAN
    /\ mounted \in {{f} : f \in Forms}
    \* only the period schema has refinements
    /\ ("period" \notin mounted => ctxHasParent)
    /\ initialData \in [Forms -> UNION {InitialDataOf(f) : f \in Forms}]
    /\ \A f \in Forms : initialData[f] \in InitialDataOf(f)
    /\ \A f \in Forms : f \notin mounted => initialData[f] = Undefined
    /\ values = [f \in Forms |-> DefaultValues(f, initialData[f])]
    /\ isSubmitting = [f \in Forms |-> FALSE]
    /\ shown = [f \in Forms |-> FALSE]
    /\ isOpen = [f \in Forms |-> f \in mounted]
    /\ att = [f \in Forms |-> [i \in Attempts |-> NoAttempt]]
    /\ last = [f \in Forms |-> NoAttempt]

\* The fields that differ from the default values (dirtyFields of useForm).
Dirty(f, v) ==
    {field \in FieldsOf(f) :
        v[field] # DefaultValues(f, initialData[f])[field]}

\* A field's input changes: field.onChange(value).
Edit(f) ==
    /\ f \in mounted
    /\ Quiet(f)
    /\ isOpen[f]
    /\ \E field \in FieldsOf(f) : \E value \in EditDomain(f, field) :
          /\ values[f][field] # value
          /\ values' = [values EXCEPT ![f][field] = value]
    /\ Cardinality(Dirty(f, values'[f])) <= MaxDirty
    /\ UNCHANGED <<ctxHasParent, mounted, initialData, isSubmitting, shown,
                   isOpen, att, last>>

\* ------------------------------------------------------ submit handler
Toast(variant, title, description) ==
    [ev |-> "toast", variant |-> variant, title |-> title,
     description |-> description]

SetIsSubmitting(b) == [ev |-> "setIsSubmitting", to |-> b]

\* (variant: the period is sent to the data service under its form names)
SavePayloadKeepsId(f, entity) == entity

\* The argument of savePeriod / saveProfessor.
SavePayload(f, entity) ==
    IF f = "period" THEN
        [code |-> entity.id, name |-> entity.name, year |-> entity.year,
         trimester |-> entity.trimester, startDate |-> entity.startDate,
         endDate |-> entity.endDate,
         enrollmentStartDate |-> entity.enrollmentStartDate,
         enrollmentEndDate |-> entity.enrollmentEndDate,
         isActive |-> entity.isActive]
    ELSE entity

\* (variant: the two success messages are exchanged)
SuccessToastSwapped(f, data) ==
    IF f = "period" THEN
        IF data = Undefined
        THEN Toast("default", "Período actualizado",
                   "Los datos del período han sido actualizados correctamente.")
        ELSE Toast("default", "Período registrado",
                   "El período ha sido registrado correctamente.")
    ELSE
        IF data = Undefined
        THEN Toast("default", "Profesor actualizado",
                   "Los datos del profesor han sido actualizados correctamente.")
        ELSE Toast("default", "Profesor registrado",
                   "El profesor ha sido registrado correctamente.")

SuccessToast(f, data) ==
    IF f = "period" THEN
        IF data # Undefined
        THEN Toast("default", "Período actualizado",
                   "Los datos del período han sido actualizados correctamente.")
        ELSE Toast("default", "Período registrado",
                   "El período ha sido registrado correctamente.")
    ELSE
        IF data # Undefined
        THEN Toast("default", "Profesor actualizado",
                   "Los datos del profesor han sido actualizados correctamente.")
        ELSE Toast("default", "Profesor registrado",
                   "El profesor ha sido registrado correctamente.")

\* (variant: the reason the data service gave is not shown)
FailureToastFallback(f, result) ==
    Toast("destructive", "Error",
          IF f = "period"
          THEN "No se pudo guardar los datos del período."
          ELSE "No se pudo guardar los datos del profesor.")

\* result.error || "No se pudo guardar ...": the reason unless it is falsy.
FailureToast(f, result) ==
    Toast("destructive", "Error",
          IF result.error.t = "string" /\ result.error.s # ""
          THEN result.error.s
          ELSE IF f = "period"
               THEN "No se pudo guardar los datos del período."
               ELSE "No se pudo guardar los datos del profesor.")

FaultToast ==
    Toast("destructive", "Error", "Ocurrió un error al procesar la solicitud.")

\* (variant: the fault is logged and not shown)
CatchBlockSilent == <<[ev |-> "console.error"]>>

\* catch (error) { console.error(...); toast(...) }
CatchBlock == <<[ev |-> "console.error"], FaultToast>>

\* (variant: the flag is not cleared)
FinallySkipped == <<>>

\* finally { setIsSubmitting(false) }
FinallyBlock == <<SetIsSubmitting(FALSE)>>

\* (variant: the form is closed without form.reset())
SuccessBranchNoReset(f, data, entity, cb) ==
    <<SuccessToast(f, data)>> \o
    (IF cb = "onSubmitRaises"
     THEN <<[ev |-> "onSubmit", arg |-> entity, raised |-> TRUE]>>
     ELSE <<[ev |-> "onSubmit", arg |-> entity, raised |-> FALSE],
            [ev |-> "onClose", raised |-> (cb = "onCloseRaises")]>>)

\* if (result.success) { toast; onSubmit(values); form.reset(); onClose() }:
\* the branch stops at the first callback that raises.
SuccessBranch(f, data, entity, cb) ==
    <<SuccessToast(f, data)>> \o
    (IF cb = "onSubmitRaises"
     THEN <<[ev |-> "onSubmit", arg |-> entity, raised |-> TRUE]>>
     ELSE <<[ev |-> "onSubmit", arg |-> entity, raised |-> FALSE],
            [ev |-> "reset"],
            [ev |-> "onClose", raised |-> (cb = "onCloseRaises")]>>)

\* (variant: the form is reset and closed on a failure result too)
FailureBranchCloses(f, result) ==
    <<FailureToast(f, result), [ev |-> "reset"],
      [ev |-> "onClose", raised |-> FALSE]>>

FailureBranch(f, result) == <<FailureToast(f, result)>>

\* What the data service can answer, and what the callbacks can do.
\* A failure result carries a reason, an empty reason or none; a fault carries
\* the message of the error raised.
GatewayResults ==
    {[success |-> TRUE, error |-> Undefined],
     [success |-> FALSE, error |-> String("Código duplicado")],
     [success |-> FALSE, error |-> String("")],
     [success |-> FALSE, error |-> Undefined]}
FaultMessage == "Failed to fetch"
GatewaySettlements ==
    GatewayResults \cup {[rejected |-> TRUE, message |-> FaultMessage]}
Callbacks == {"return", "onSubmitRaises", "onCloseRaises"}

\* handleSubmit up to the await: the flag is set and the gateway is called;
\* a gateway that raises in the call goes to catch and finally at once.
HandlerStart(f, entity, gatewayThrows) ==
    <<SetIsSubmitting(TRUE), [ev |-> "gateway", payload |-> SavePayload(f, entity)]>>
    \o (IF gatewayThrows THEN CatchBlock \o FinallyBlock ELSE <<>>)

\* (variant: the success test on the result is missing)
HandlerRestNoTest(f, data, entity, settlement, cb) ==
    IF "rejected" \in DOMAIN settlement
    THEN CatchBlock \o FinallyBlock
    ELSE SuccessBranch(f, data, entity, cb)
         \o (IF cb = "return" THEN <<>> ELSE CatchBlock)
         \o FinallyBlock

\* handleSubmit after the await: the branch on the settlement, catch when the
\* promise rejected or a callback raised, then finally.
HandlerRest(f, data, entity, settlement, cb) ==
    IF "rejected" \in DOMAIN settlement
    THEN CatchBlock \o FinallyBlock
    ELSE IF settlement.success
    THEN SuccessBranch(f, data, entity, cb)
         \o (IF cb = "return" THEN <<>> ELSE CatchBlock)
         \o FinallyBlock
    ELSE FailureBranch(f, settlement) \o FinallyBlock

\* The events of one kind in a log, and the last flag a log sets.
EventsOf(log, kind) == {i \in 1..Len(log) : log[i].ev = kind}
Did(log, kind) == EventsOf(log, kind) # {}
FlagAfter(log, flag) ==
    LET sets == EventsOf(log, "setIsSubmitting") IN
    IF sets = {} THEN flag
    ELSE log[CHOOSE i \in sets : \A j \in sets : j <= i].to
Closed(log) ==
    \E i \in EventsOf(log, "onClose") : ~log[i].raised

\* The submit event of the form: form.handleSubmit(handleSubmit) starts and
\* hands the field mapping to the resolver.  The submit button must be
\* enabled as rendered.
Submit(f) ==
    /\ f \in mounted
    /\ isOpen[f]
    /\ ~shown[f]
    /\ \E i \in Attempts :
          /\ att[f][i].pc = "unused"
          /\ \A j \in Attempts : j < i => att[f][j].pc # "unused"
          /\ att' = [att EXCEPT ![f][i] =
                        [NoAttempt EXCEPT !.pc = "validating",
                                          !.snapshot = values[f]]]
    /\ UNCHANGED <<ctxHasParent, mounted, initialData, values,
                   isSubmitting, shown, isOpen, last>>

\* (variant: a mapping the schema rejects is cleared from the form)
ValidatedClears(f) ==
    \E i \in Attempts :
        /\ att[f][i].pc = "validating"
        /\ LET a == att[f][i]
               r == Resolve(f, a.snapshot, ctxHasParent)
           IN
           IF r.raised THEN
               /\ att' = [att EXCEPT ![f][i] = DoneAttempt]
               /\ last' = [last EXCEPT ![f] =
                              [a EXCEPT !.pc = "done", !.check = "raised"]]
               /\ UNCHANGED <<isSubmitting, values>>
           ELSE IF r.issues # {} THEN
               /\ att' = [att EXCEPT ![f][i] = DoneAttempt]
               /\ last' = [last EXCEPT ![f] =
                              [a EXCEPT !.pc = "done", !.check = "rejected",
                                        !.issues = r.issues]]
               /\ values' = [values EXCEPT
                                ![f] = DefaultValues(f, initialData[f])]
               /\ UNCHANGED isSubmitting
           ELSE
               \E gatewayThrows \in BOOLEAN :
                   LET log == HandlerStart(f, r.data, gatewayThrows)
                       b == [a EXCEPT !.check = "passed", !.entity = r.data,
                                      !.log = log]
                   IN
                   /\ IF gatewayThrows
                      THEN /\ att' = [att EXCEPT ![f][i] = DoneAttempt]
                           /\ last' = [last EXCEPT ![f] =
                                          [b EXCEPT !.pc = "done",
                                                    !.settlement =
                                                        [threw |-> TRUE,
                                                         message |->
                                                            FaultMessage]]]
                      ELSE /\ att' = [att EXCEPT ![f][i] =
                                         [b EXCEPT !.pc = "awaiting"]]
                           /\ UNCHANGED last
                   /\ isSubmitting' =
                         [isSubmitting EXCEPT ![f] = FlagAfter(log, @)]
                   /\ UNCHANGED values
        /\ UNCHANGED <<ctxHasParent, mounted, initialData, shown, isOpen>>

\* The resolver settles.  A schema fault rejects the promise of
\* form.handleSubmit; issues are set as field errors; otherwise handleSubmit
\* is called with the parsed entity and runs to its await.
Validated(f) ==
    \E i \in Attempts :
        /\ att[f][i].pc = "validating"
        /\ LET a == att[f][i]
               r == Resolve(f, a.snapshot, ctxHasParent)
           IN
           IF r.raised THEN
               /\ att' = [att EXCEPT ![f][i] = DoneAttempt]
               /\ last' = [last EXCEPT ![f] =
                              [a EXCEPT !.pc = "done", !.check = "raised"]]
               /\ UNCHANGED isSubmitting
           ELSE IF r.issues # {} THEN
               /\ att' = [att EXCEPT ![f][i] = DoneAttempt]
               /\ last' = [last EXCEPT ![f] =
                              [a EXCEPT !.pc = "done", !.check = "rejected",
                                        !.issues = r.issues]]
               /\ UNCHANGED isSubmitting
           ELSE
               \E gatewayThrows \in BOOLEAN :
                   LET log == HandlerStart(f, r.data, gatewayThrows)
                       b == [a EXCEPT !.check = "passed", !.entity = r.data,
                                      !.log = log]
                   IN
                   /\ IF gatewayThrows
                      THEN /\ att' = [att EXCEPT ![f][i] = DoneAttempt]
                           /\ last' = [last EXCEPT ![f] =
                                          [b EXCEPT !.pc = "done",
                                                    !.settlement =
                                                        [threw |-> TRUE,
                                                         message |->
                                                            FaultMessage]]]
                      ELSE /\ att' = [att EXCEPT ![f][i] =
                                         [b EXCEPT !.pc = "awaiting"]]
                           /\ UNCHANGED last
                   /\ isSubmitting' =
                         [isSubmitting EXCEPT ![f] = FlagAfter(log, @)]
        /\ UNCHANGED <<ctxHasParent, mounted, initialData, values,
                       shown, isOpen>>

\* The gateway call settles and handleSubmit runs to its end.
GatewaySettles(f) ==
    \E i \in Attempts, settlement \in GatewaySettlements, cb \in Callbacks :
        /\ Quiet(f)
        /\ att[f][i].pc = "awaiting"
        /\ (cb # "return" =>
               "success" \in DOMAIN settlement /\ settlement.success)
        /\ LET a == att[f][i]
               rest == HandlerRest(f, initialData[f], a.entity, settlement, cb)
           IN
           /\ att' = [att EXCEPT ![f][i] = DoneAttempt]
           /\ last' = [last EXCEPT ![f] =
                          [a EXCEPT !.pc = "done", !.settlement = settlement,
                                    !.log = @ \o rest]]
           /\ isSubmitting' = [isSubmitting EXCEPT ![f] = FlagAfter(rest, @)]
           /\ values' = IF Did(rest, "reset")
                        THEN [values EXCEPT
                                 ![f] = DefaultValues(f, initialData[f])]
                        ELSE values
           /\ isOpen' = IF Closed(rest) THEN [isOpen EXCEPT ![f] = FALSE]
                        ELSE isOpen
        /\ UNCHANGED <<ctxHasParent, mounted, initialData, shown>>

\* (variant: the buttons of every mounted form are disabled by one flag)
RenderShared(f) ==
    /\ f \in mounted
    /\ Quiet(f)
    /\ shown[f] # isSubmitting[f]
    /\ shown' = [g \in Forms |-> isSubmitting[f]]
    /\ UNCHANGED <<ctxHasParent, mounted, initialData, values,
                   isSubmitting, isOpen, att, last>>

\* React renders the component with the current flag.
Render(f) ==
    /\ f \in mounted
    /\ Quiet(f)
    /\ shown[f] # isSubmitting[f]
    /\ shown' = [shown EXCEPT ![f] = isSubmitting[f]]
    /\ UNCHANGED <<ctxHasParent, mounted, initialData, values,
                   isSubmitting, isOpen, att, last>>

\* The Cancelar button: onClick={onClose} disabled={isSubmitting}.
Cancel(f) ==
    /\ f \in mounted
    /\ Quiet(f)
    /\ isOpen[f]
    /\ ~shown[f]
    /\ isOpen' = [isOpen EXCEPT ![f] = FALSE]
    /\ UNCHANGED <<ctxHasParent, mounted, initialData, values,
                   isSubmitting, shown, att, last>>

\* The dialog dismisses itself (Escape, a click outside, its close button):
\* <Dialog open={isOpen} onOpenChange={onClose}>.
Dismiss(f) ==
    /\ f \in mounted
    /\ Quiet(f)
    /\ isOpen[f]
    /\ isOpen' = [isOpen EXCEPT ![f] = FALSE]
    /\ UNCHANGED <<ctxHasParent, mounted, initialData, values,
                   isSubmitting, shown, att, last>>

\* The parent opens the dialog again.
Reopen(f) ==
    /\ f \in mounted
    /\ Quiet(f)
    /\ ~isOpen[f]
    /\ isOpen' = [isOpen EXCEPT ![f] = TRUE]
    /\ UNCHANGED <<ctxHasParent, mounted, initialData, values,
                   isSubmitting, shown, att, last>>

Next ==
    \E f \in Forms :
        \/ Edit(f)
        \/ Submit(f)
        \/ Validated(f)
        \/ GatewaySettles(f)
        \/ Render(f)
        \/ Cancel(f)
        \/ Dismiss(f)
        \/ Reopen(f)

Spec == Init /\ [][Next]_vars

\* --------------------------------------------- the schemas on their own
\* Field mappings a user can have filled in, field by field.
PeriodInputs ==
    [id : {"", "2024-T1"},
     name : {"ab", "Trimester I 2024"},
     year : {Number(2024), String("2024"), String("abc"), String("1999"),
             String("2101"), String("2024.5")},
     trimester : {"1"},
     startDate : DateInputs,
     endDate : DateInputs,
     enrollmentStartDate : DateInputs,
     enrollmentEndDate : DateInputs,
     isActive : {FALSE}]

ProfessorInputs ==
    [id : {"P", "P01"},
     firstName : {"A", "Ana"},
     lastName : {"M", "Mora"},
     cedula : {<<"V", "-", "1", "2", "3", "4", "5", "6", "7">>,
               <<"E", "-", "1", "2", "3", "4", "5", "6", "7", "8">>,
               <<"V", "1", "2", "3", "4", "5", "6", "7">>,
               <<"V", "-", "1", "2", "3", "4", "5", "6">>,
               <<"V", "-", "1", "2", "3", "4", "5", "6", "7", "8", "9">>,
               <<"v", "-", "1", "2", "3", "4", "5", "6", "7">>,
               <<"V", "-", "1", "2", "3", "4", "5", "6", "a">>,
               <<" ", "V", "-", "1", "2", "3", "4", "5", "6", "7">>,
               <<"V", "-", "1", "2", "3", "4", "5", "6", "7", " ">>},
     department : {""},
     education : {"M", "MSc"},
     specialization : {"R", "Redes"},
     email : {<<"a", "@", "b", ".", "c", "o">>, <<"a", "@", "b">>},
     phone : {"0412", "04121234567"},
     hireDateMonth : {"10"},
     hireDateYear : {"2026"},
     contractType : {"tiempo_completo"},
     status : {"activo"}]

\* A dialog in create mode whose fields have been filled in.
InputsOf(f) == IF f = "period" THEN PeriodInputs ELSE ProfessorInputs

InitFilled ==
    /\ ctxHasParent \in BOOLEAN
    /\ \E f \in Forms :
          /\ mounted = {f}
          /\ \/ /\ initialData = [g \in Forms |-> Undefined]
                /\ \E v \in InputsOf(f) :
                      values = [g \in Forms |->
                                   IF g = f THEN v
                                   ELSE DefaultValues(g, Undefined)]
             \* or a period dialog opened on an old record
             \/ /\ f = "period"
                /\ \E r \in PeriodRecordsOld :
                      /\ initialData = [g \in Forms |->
                                           IF g = f THEN r ELSE Undefined]
                      /\ values = [g \in Forms |->
                                      DefaultValues(g, initialData[g])]
    /\ ("period" \notin mounted => ctxHasParent)
    /\ isSubmitting = [f \in Forms |-> FALSE]
    /\ shown = [f \in Forms |-> FALSE]
    /\ isOpen = [f \in Forms |-> f \in mounted]
    /\ att = [f \in Forms |-> [i \in Attempts |-> NoAttempt]]
    /\ last = [f \in Forms |-> NoAttempt]

\* The first submit of the dialog.
FirstSubmit(f) ==
    /\ att[f][1].pc = "unused"
    /\ Submit(f)

NextFilled ==
    \E f \in Forms :
        \/ FirstSubmit(f)
        \/ Validated(f)

ValidateSpec == InitFilled /\ [][NextFilled]_vars

\* ------------------------------------------------ two dialogs on a page
\* A page that renders both dialogs, each in edit mode on a stored record.
InitPair ==
    /\ ctxHasParent \in BOOLEAN
    /\ mounted = Forms
    /\ initialData = [f \in Forms |->
                         IF f = "period" THEN PeriodRecord ELSE ProfessorRecord]
    /\ values = [f \in Forms |-> DefaultValues(f, initialData[f])]
    /\ isSubmitting = [f \in Forms |-> FALSE]
    /\ shown = [f \in Forms |-> FALSE]
    /\ isOpen = [f \in Forms |-> TRUE]
    /\ att = [f \in Forms |-> [i \in Attempts |-> NoAttempt]]
    /\ last = [f \in Forms |-> NoAttempt]

\* The user retypes the code of the record.
EditId(f) ==
    /\ Edit(f)
    /\ \A field \in FieldsOf(f) \ {"id"} : values'[f][field] = values[f][field]

NextPair ==
    \E f \in Forms :
        \/ EditId(f)
        \/ FirstSubmit(f)
        \/ Validated(f)
        \/ GatewaySettles(f)
        \/ Render(f)
        \/ Cancel(f)
        \/ Dismiss(f)
        \/ Reopen(f)

PairSpec == InitPair /\ [][NextPair]_vars

\* ------------------------------------------------------------ claims
Issues(f, v) == IF f = "period" THEN PeriodIssues(v) ELSE ProfessorIssues(v)
IsSuccess(settlement) ==
    "success" \in DOMAIN settlement /\ settlement.success
IsFailure(settlement) ==
    "success" \in DOMAIN settlement /\ ~settlement.success
IsFault(settlement) ==
    "rejected" \in DOMAIN settlement \/ "threw" \in DOMAIN settlement

\* The attempts of form f on record: those under way and the last finished.
Records(f) ==
    {att[f][i] : i \in {j \in Attempts :
                           att[f][j].pc \in {"validating", "awaiting"}}}
    \cup (IF last[f].pc = "done" THEN {last[f]} ELSE {})
\* Those the resolver has answered.
Answered(f) == {a \in Records(f) : a.pc \in {"awaiting", "done"}}
\* The step in which an attempt of form f finishes.
FinishStep(f) ==
    \E i \in Attempts : att[f][i].pc # "done" /\ att'[f][i].pc = "done"

\* C1: a form instance has at most one gateway call in flight, whatever
\* the interleaving of submit events, validation and the flag update.
C1_SingleFlight == \A f \in Forms : Cardinality(InFlight(f)) <= 1

\* C2: every onSubmit call of an attempt is made with the entity the schema
\* accepted, after a gateway call for that entity that resolved with
\* success: never after issues, a failure result or a fault.
C2_OnSubmitOnlyAfterSuccess ==
    \A f \in Forms : \A a \in Records(f) :
        \A k \in EventsOf(a.log, "onSubmit") :
            /\ a.check = "passed"
            /\ Issues(f, a.snapshot) = {}
            /\ a.log[k].arg = a.entity
            /\ IsSuccess(a.settlement)
            /\ \E g \in EventsOf(a.log, "gateway") :
                  /\ g < k
                  /\ a.log[g].payload = SavePayload(f, a.log[k].arg)

C2_Witness == \E f \in Forms : Did(last[f].log, "onSubmit")

\* C3: a submit on a field mapping that violates a constraint does nothing:
\* the attempt makes no gateway call, emits no notification and calls
\* neither callback, and the step that ends it leaves the flag, the dialog
\* and the field mapping as they were.
C3_InvalidDoesNothing ==
    /\ [](\A f \in Forms : \A a \in Answered(f) :
            Issues(f, a.snapshot) # {}
            => /\ a.check # "passed"
               /\ a.pc = "done"
               /\ a.log = <<>>)
    /\ [][\A f \in Forms :
            (FinishStep(f) /\ last'[f].check # "passed")
            => UNCHANGED <<isSubmitting, shown, isOpen, values>>]_vars

C3_Witness ==
    \E f \in Forms :
        /\ last[f].pc = "done"
        /\ last[f].check = "rejected"
        /\ last[f].issues # {}

OnSubmitReturned(log) ==
    \E k \in EventsOf(log, "onSubmit") : ~log[k].raised

\* C4: after a gateway success the attempt has called onSubmit exactly once
\* with the validated entity, has reset the field mapping and has closed
\* the dialog through onClose.
C4_SuccessClosesAndResets ==
    \A f \in Forms :
        LET a == last[f] IN
        (a.pc = "done" /\ IsSuccess(a.settlement))
        => /\ Cardinality(EventsOf(a.log, "onSubmit")) = 1
           /\ \A k \in EventsOf(a.log, "onSubmit") : a.log[k].arg = a.entity
           /\ Did(a.log, "reset")
           /\ Closed(a.log)

\* What a gateway success does bring about: onSubmit is called exactly once
\* with the validated entity; when onSubmit returns, the field mapping is
\* reset to its defaults and onClose is invoked exactly once; when onClose
\* returns too, the dialog is closed.  While the dialog is closed the field
\* mapping changes only by such a reset.
SuccessEffects ==
    /\ [](\A f \in Forms :
            LET a == last[f] IN
            (a.pc = "done" /\ IsSuccess(a.settlement))
            => /\ Cardinality(EventsOf(a.log, "onSubmit")) = 1
               /\ \A k \in EventsOf(a.log, "onSubmit") :
                     a.log[k].arg = a.entity
               /\ OnSubmitReturned(a.log)
                    => /\ Did(a.log, "reset")
                       /\ Cardinality(EventsOf(a.log, "onClose")) = 1)
    /\ [][\A f \in Forms :
            (FinishStep(f) /\ IsSuccess(last'[f].settlement))
            => /\ OnSubmitReturned(last'[f].log)
                    => values'[f] = DefaultValues(f, initialData[f])
               /\ Closed(last'[f].log) => ~isOpen'[f]]_vars
    /\ [][\A f \in Forms :
            ~isOpen[f]
            => \/ values'[f] = values[f]
               \/ values'[f] = DefaultValues(f, initialData[f])]_vars

SuccessClosedReached ==
    \E f \in Forms :
        /\ last[f].pc = "done"
        /\ IsSuccess(last[f].settlement)
        /\ Closed(last[f].log)
        /\ last[f].snapshot # DefaultValues(f, initialData[f])
        /\ values[f] = DefaultValues(f, initialData[f])
        /\ ~isOpen[f]

\* C5: on a failure result the attempt emits one error notification and
\* clears the flag, and nothing else: no onSubmit, no onClose, no reset; the
\* step leaves the field mapping and the dialog as they were.
C5_FailureKeepsForm ==
    /\ [](\A f \in Forms :
            LET a == last[f] IN
            (a.pc = "done" /\ IsFailure(a.settlement))
            => /\ ~Did(a.log, "onSubmit")
               /\ ~Did(a.log, "onClose")
               /\ ~Did(a.log, "reset")
               /\ Cardinality(EventsOf(a.log, "toast")) = 1
               /\ \A k \in EventsOf(a.log, "toast") :
                     a.log[k].variant = "destructive"
               /\ a.log[Len(a.log)] = SetIsSubmitting(FALSE))
    /\ [][\A f \in Forms :
            (FinishStep(f) /\ IsFailure(last'[f].settlement))
            => /\ values'[f] = values[f]
               /\ isOpen'[f] = isOpen[f]
               /\ ~isSubmitting'[f]]_vars

C5_Witness ==
    \E f \in Forms :
        /\ last[f].pc = "done"
        /\ IsFailure(last[f].settlement)
        /\ isOpen[f]
        /\ values[f] = last[f].snapshot
        /\ values[f] # DefaultValues(f, initialData[f])

\* C6: a gateway call that raises, in the call or as a rejected promise, is
\* caught: the handler runs to its end, emits the generic error notification
\* and clears the flag; it calls neither callback and leaves the field
\* mapping and the dialog as they were.
C6_FaultIsCaught ==
    /\ [](\A f \in Forms : \A a \in Records(f) :
            IsFault(a.settlement)
            => /\ a.pc = "done"
               /\ Did(a.log, "gateway")
               /\ ~Did(a.log, "onSubmit")
               /\ ~Did(a.log, "onClose")
               /\ ~Did(a.log, "reset")
               /\ {a.log[k] : k \in EventsOf(a.log, "toast")} = {FaultToast}
               /\ Cardinality(EventsOf(a.log, "toast")) = 1
               /\ a.log[Len(a.log)] = SetIsSubmitting(FALSE))
    /\ [][\A f \in Forms :
            (FinishStep(f) /\ IsFault(last'[f].settlement))
            => /\ values'[f] = values[f]
               /\ isOpen'[f] = isOpen[f]]_vars

C6_Witness ==
    \E f \in Forms :
        /\ "rejected" \in DOMAIN last[f].settlement
        /\ values[f] = last[f].snapshot
        /\ isOpen[f]

\* C7: the flag is cleared on every exit path of the handler: an attempt
\* that entered the handler and finished ended by clearing it, and the flag
\* is set only while a gateway call of the instance is pending.
C7_FlagCleared ==
    \A f \in Forms :
        /\ isSubmitting[f] => InFlight(f) # {}
        /\ (last[f].pc = "done" /\ last[f].check = "passed")
              => last[f].log[Len(last[f].log)] = SetIsSubmitting(FALSE)

C7_Witness ==
    \E f \in Forms :
        /\ \A i \in Attempts : att[f][i].pc = "done"
        /\ last[f].check = "passed"
        /\ ~isSubmitting[f]

\* C8: while a gateway call of the instance is pending, the dialog is closed
\* by nothing but the success path of the handler.
C8_NoCloseWhileSubmitting ==
    [][\A f \in Forms :
         (InFlight(f) # {} /\ isOpen[f] /\ ~isOpen'[f])
         => /\ FinishStep(f)
            /\ IsSuccess(last'[f].settlement)]_vars

\* C9: for a period whose other fields are valid, validation passes exactly
\* when each end date is after its start date; equal dates are reported on
\* the end-date field and the gateway is not called.
OtherPeriodFieldsValid(v) ==
    /\ Len(v.id) >= 1
    /\ Len(v.name) >= 3
    /\ YearIssues(v.year) = {}
    /\ v.trimester \in {"1", "2", "3"}
    /\ \A field \in {"startDate", "endDate", "enrollmentStartDate",
                     "enrollmentEndDate"} : v[field].t = "date"

C9_DateOrder ==
    \A a \in Answered("period") :
        LET v == a.snapshot IN
        OtherPeriodFieldsValid(v)
        => /\ a.check = "passed"
              <=> /\ v.endDate.day > v.startDate.day
                  /\ v.enrollmentEndDate.day > v.enrollmentStartDate.day
           /\ v.endDate.day = v.startDate.day
                => <<"endDate", "custom">> \in a.issues /\ a.log = <<>>
           /\ v.enrollmentEndDate.day = v.enrollmentStartDate.day
                => /\ <<"enrollmentEndDate", "custom">> \in a.issues
                   /\ a.log = <<>>

\* C10: when a field of a date pair is absent, the only violations reported
\* for the pair are the required rules of its absent fields.
PairIssues(issues, start, end) ==
    {x \in issues : x[1] \in {start, end}}
RequiredOnly(v, start, end) ==
    {<<field, "required">> : field \in {x \in {start, end} : v[x].t # "date"}}

C10_AbsentSkipsCrossField ==
    \A a \in Answered("period") :
        LET v == a.snapshot IN
        /\ (v.startDate.t # "date" \/ v.endDate.t # "date")
             => /\ a.check = "rejected"
                /\ PairIssues(a.issues, "startDate", "endDate")
                     = RequiredOnly(v, "startDate", "endDate")
        /\ (v.enrollmentStartDate.t # "date"
              \/ v.enrollmentEndDate.t # "date")
             => /\ a.check = "rejected"
                /\ PairIssues(a.issues, "enrollmentStartDate",
                              "enrollmentEndDate")
                     = RequiredOnly(v, "enrollmentStartDate",
                                    "enrollmentEndDate")

\* C11: an attempt whose validation passed makes exactly one gateway call;
\* the payload of a period is the validated entity with its id under the
\* name code and the other eight fields as validated, and the payload of a
\* professor is the validated entity itself.
C11_OneCallWithPayload ==
    \A f \in Forms : \A a \in Answered(f) :
        a.check = "passed"
        => /\ Cardinality(EventsOf(a.log, "gateway")) = 1
           /\ \A g \in EventsOf(a.log, "gateway") :
                 LET payload == a.log[g].payload IN
                 IF f = "period" THEN
                     /\ a.entity = PeriodParsed(a.snapshot)
                     /\ DOMAIN payload = (PeriodFields \ {"id"}) \cup {"code"}
                     /\ payload.code = a.entity.id
                     /\ \A field \in PeriodFields \ {"id"} :
                           payload[field] = a.entity[field]
                 ELSE
                     /\ a.entity = a.snapshot
                     /\ payload = a.entity

C11_Witness ==
    \E a \in Answered("period") :
        /\ a.check = "passed"
        /\ a.snapshot.id = "2024-T1"
        /\ a.snapshot.year = String("2024")
        /\ \E g \in EventsOf(a.log, "gateway") :
              a.log[g].payload.code = "2024-T1"

\* An attempt that finished without a gateway success: the schema raised or
\* reported issues, the gateway answered a failure, or the call faulted.
Failed(a) ==
    /\ a.pc = "done"
    /\ \/ a.check \in {"rejected", "raised"}
       \/ IsFailure(a.settlement)
       \/ IsFault(a.settlement)

\* C12: after a failed attempt the instance is idle again (the flag is clear
\* once no call is pending), and a later submit of a field mapping that meets
\* every constraint passes validation and makes a new gateway call.
C12_RetryAfterFailure ==
    /\ [](\A f \in Forms :
            (Failed(last[f]) /\ InFlight(f) = {}) => ~isSubmitting[f])
    /\ [][\A f \in Forms : \A i \in Attempts :
            (/\ Failed(last[f])
             /\ att[f][i].pc = "validating"
             /\ Issues(f, att[f][i].snapshot) = {}
             /\ att'[f][i].pc # "validating")
            => \/ /\ att'[f][i].pc = "awaiting"
                  /\ Did(att'[f][i].log, "gateway")
               \/ /\ last'[f].check = "passed"
                  /\ Did(last'[f].log, "gateway")]_vars

FallbackMessage(f) ==
    IF f = "period" THEN "No se pudo guardar los datos del período."
    ELSE "No se pudo guardar los datos del profesor."
Descriptions(log) == {log[k].description : k \in EventsOf(log, "toast")}

\* C13 (as stated): on a failure result the description of the error
\* notification is the reason the gateway supplied whenever the result
\* carries one, and the fallback message only when it carries none.
C13_ReasonWheneverSupplied ==
    \A f \in Forms :
        LET a == last[f] IN
        (a.pc = "done" /\ IsFailure(a.settlement))
        => Descriptions(a.log) =
              {IF a.settlement.error.t = "string"
               THEN a.settlement.error.s
               ELSE FallbackMessage(f)}

\* C13 (amended): on a failure result the description is the reason the
\* gateway supplied when that reason is a non-empty string, and the form's
\* fallback message when the reason is absent or empty; on a gateway fault
\* the description is the fixed generic message and never the message of
\* the error raised.
C13_ReasonUnlessEmpty ==
    \A f \in Forms :
        LET a == last[f] IN
        /\ (a.pc = "done" /\ IsFailure(a.settlement))
           => Descriptions(a.log) =
                 {IF a.settlement.error.t = "string"
                     /\ a.settlement.error.s # ""
                  THEN a.settlement.error.s
                  ELSE FallbackMessage(f)}
        /\ (a.pc = "done" /\ IsFault(a.settlement))
           => /\ Descriptions(a.log) =
                    {"Ocurrió un error al procesar la solicitud."}
              /\ a.settlement.message \notin Descriptions(a.log)

C13_Witness ==
    \E f \in Forms :
        /\ last[f].pc = "done"
        /\ IsFailure(last[f].settlement)
        /\ last[f].settlement.error = String("Código duplicado")
        /\ "Código duplicado" \in Descriptions(last[f].log)

\* What a form instance holds: its flag as set and as rendered, its field
\* mapping, whether its dialog is open, and its submit attempts.
InstanceState(f) ==
    <<isSubmitting[f], shown[f], values[f], isOpen[f], att[f], last[f]>>

\* C14: two dialogs open on one page are independent: a step that changes
\* anything of one instance leaves the flag, the field mapping, the dialog
\* and the attempts of the other as they were, and a call pending on one
\* instance does not keep the other from being submitted.
C14_InstancesIndependent ==
    /\ [][\A f \in Forms : \A g \in Forms \ {f} :
            InstanceState(f)' # InstanceState(f)
            => InstanceState(g)' = InstanceState(g)]_vars
    /\ [](\A f \in Forms : \A g \in Forms \ {f} :
            (/\ InFlight(f) # {}
             /\ g \in mounted
             /\ isOpen[g]
             /\ ~isSubmitting[g]
             /\ att[g][1].pc = "unused")
            => ENABLED FirstSubmit(g))

C14_Witness ==
    /\ mounted = Forms
    /\ \A f \in Forms : InFlight(f) # {} /\ isSubmitting[f] /\ isOpen[f]

\* The string fields declared with .min(L), with their L.
MinLengths(f) ==
    IF f = "period" THEN {<<"id", 1>>, <<"name", 3>>}
    ELSE {<<"id", 2>>, <<"firstName", 2>>, <<"lastName", 2>>,
          <<"education", 2>>, <<"specialization", 2>>, <<"phone", 10>>}

\* C15: an input shorter than the minimum length of its field makes
\* validation fail with an error on that field, and the submit makes no
\* gateway call.
C15_TooShortRejected ==
    \A f \in Forms : \A a \in Answered(f) : \A m \in MinLengths(f) :
        Len(a.snapshot[m[1]]) < m[2]
        => /\ a.check = "rejected"
           /\ <<m[1], "too_small">> \in a.issues
           /\ ~Did(a.log, "gateway")

\* C16: the year is coerced to a number before the range check and is valid
\* exactly when the coerced value is an integer from 2000 to 2100; an input
\* that does not coerce to a number is a type violation.  (Stated for the
\* validations that ran to their end.)
C16_YearIntegerInRange ==
    \A a \in Answered("period") :
        a.check # "raised"
        => LET n == CoerceNumber(a.snapshot.year)
               yearIssues == {x \in a.issues : x[1] = "year"}
           IN
           /\ yearIssues = {}
                <=> /\ "nan" \notin DOMAIN n
                    /\ "tenths" \notin DOMAIN n
                    /\ n.n >= 2000
                    /\ n.n <= 2100
           /\ "nan" \in DOMAIN n => yearIssues = {<<"year", "invalid_type">>}
           /\ a.check = "passed" => a.entity.year = n

\* The ID format: V or E, a dash, then seven or eight digits.
IdFormat(s) ==
    \E n \in {7, 8} :
        /\ Len(s) = n + 2
        /\ s[1] \in {"V", "E"}
        /\ s[2] = "-"
        /\ \A i \in 3..(n + 2) : s[i] \in Digits

\* C17: the cedula of a professor is accepted exactly when it has the ID
\* format; an input that does not match is reported on the field and the
\* submit makes no gateway call; the input is matched as typed, so one that
\* has the format only once its surrounding spaces are removed is rejected.
C17_CedulaPattern ==
    \A a \in Answered("professor") :
        LET s == a.snapshot.cedula IN
        /\ <<"cedula", "invalid_string">> \in a.issues <=> ~IdFormat(s)
        /\ ~IdFormat(s) => a.check = "rejected" /\ ~Did(a.log, "gateway")
        /\ (Trim(s) # s /\ IdFormat(Trim(s)))
             => <<"cedula", "invalid_string">> \in a.issues

C17_Witness ==
    \E a \in Answered("professor") :
        /\ Trim(a.snapshot.cedula) # a.snapshot.cedula
        /\ IdFormat(Trim(a.snapshot.cedula))
        /\ a.check = "rejected"
        /\ a.issues = {<<"cedula", "invalid_string">>}

\* C18: the field mapping is discarded when the dialog closes: at the next
\* open the form shows its default values (the supplied record in edit
\* mode), not the edits of the session before.
C18_DiscardedOnClose ==
    [][\A f \in Forms :
         (~isOpen[f] /\ isOpen'[f])
         => values'[f] = DefaultValues(f, initialData[f])]_vars

Titles(log) == {log[k].title : k \in EventsOf(log, "toast")}
SuccessTitles ==
    {"Período registrado", "Período actualizado",
     "Profesor registrado", "Profesor actualizado"}

\* C19: a gateway success emits the "registrado" notification of the form
\* when the dialog was opened without initialData and the "actualizado"
\* notification when it was opened on a record, never the other one; an
\* attempt that did not end in a gateway success emits neither.
C19_ToastByMode ==
    \A f \in Forms : \A a \in Records(f) :
        LET created == IF f = "period" THEN "Período registrado"
                       ELSE "Profesor registrado"
            updated == IF f = "period" THEN "Período actualizado"
                       ELSE "Profesor actualizado"
        IN
        /\ (a.pc = "done" /\ IsSuccess(a.settlement))
           => Titles(a.log) \cap SuccessTitles =
                 {IF initialData[f] = Undefined THEN created ELSE updated}
        /\ ~(a.pc = "done" /\ IsSuccess(a.settlement))
           => Titles(a.log) \cap SuccessTitles = {}

\* A dialog opened on a record has saved it and said so.
C19_Witness ==
    \E f \in Forms :
        /\ last[f].pc = "done"
        /\ IsSuccess(last[f].settlement)
        /\ initialData[f] # Undefined
        /\ "Período actualizado" \in Titles(last[f].log)
           \/ "Profesor actualizado" \in Titles(last[f].log)

C21_OneNotification ==
    \A f \in Forms :
        LET a == last[f] IN
        (a.pc = "done" /\ Did(a.log, "gateway"))
        => /\ Cardinality(EventsOf(a.log, "toast")) = 1
           /\ ~(/\ Titles(a.log) \cap SuccessTitles # {}
                /\ "Error" \in Titles(a.log))

\* The places in a log of the events of one kind, as a set, and the place of
\* the only one.
Only(log, kind) == CHOOSE k \in EventsOf(log, kind) : TRUE

\* C22: after a gateway success the effects come in one order: the success
\* notification, onSubmit with the validated entity, the reset of the field
\* mapping, onClose; onClose is invoked exactly once and not before
\* onSubmit, and the flag is cleared after all of them.
C22_SuccessOrder ==
    \A f \in Forms :
        LET a == last[f] IN
        (a.pc = "done" /\ IsSuccess(a.settlement))
        => /\ \A kind \in {"gateway", "onSubmit", "reset", "onClose"} :
                 Cardinality(EventsOf(a.log, kind)) = 1
           /\ \E t \in EventsOf(a.log, "toast") :
                 /\ a.log[t].title \in SuccessTitles
                 /\ Only(a.log, "gateway") < t
                 /\ t < Only(a.log, "onSubmit")
           /\ a.log[Only(a.log, "onSubmit")].arg = a.entity
           /\ Only(a.log, "onSubmit") < Only(a.log, "reset")
           /\ Only(a.log, "reset") < Only(a.log, "onClose")
           /\ a.log[Len(a.log)] = SetIsSubmitting(FALSE)
           /\ Only(a.log, "onClose") < Len(a.log)

\* The order of the effects that do occur after a gateway success: every
\* one of them is after the gateway call and the success notification, the
\* reset is after onSubmit, onClose is after the reset and is invoked at most
\* once, and the clearing of the flag is the last event.
SuccessOrderOfEffects ==
    \A f \in Forms :
        LET a == last[f] IN
        (a.pc = "done" /\ IsSuccess(a.settlement))
        => /\ a.log[1] = SetIsSubmitting(TRUE)
           /\ a.log[2].ev = "gateway"
           /\ a.log[3].ev = "toast" /\ a.log[3].title \in SuccessTitles
           /\ a.log[4].ev = "onSubmit" /\ a.log[4].arg = a.entity
           /\ Cardinality(EventsOf(a.log, "onSubmit")) = 1
           /\ Cardinality(EventsOf(a.log, "onClose")) <= 1
           /\ \A r \in EventsOf(a.log, "reset") : r = 5
           /\ \A c \in EventsOf(a.log, "onClose") : c = 6
           /\ Did(a.log, "onClose") => Did(a.log, "reset")
           /\ a.log[Len(a.log)] = SetIsSubmitting(FALSE)
           /\ Cardinality(EventsOf(a.log, "setIsSubmitting")) = 2

\* C23: while a gateway call of an instance is pending its isSubmitting
\* flag is set.
C23_InFlightImpliesSubmitting ==
    \A f \in Forms : InFlight(f) # {} => isSubmitting[f]

BlankValues(f) == IF f = "period" THEN PeriodDefaults ELSE ProfessorDefaults

\* C24: the reset after a successful submission restores the record the
\* dialog was opened on when there is one, and the blank values of the form
\* when there is none; the mapping just submitted is not kept.
C24_ResetRestoresInitialData ==
    [][\A f \in Forms :
         (FinishStep(f) /\ Did(last'[f].log, "reset"))
         => /\ IsSuccess(last'[f].settlement)
            /\ values'[f] = IF initialData[f] # Undefined
                            THEN initialData[f]
                            ELSE BlankValues(f)]_vars

\* A dialog opened on a record has saved an edited mapping and shows the
\* record again.
C24_Witness ==
    \E f \in Forms :
        /\ initialData[f] # Undefined
        /\ last[f].pc = "done"
        /\ Did(last[f].log, "reset")
        /\ last[f].snapshot # initialData[f]
        /\ values[f] = initialData[f]
        /\ values[f] # BlankValues(f)

PeriodDateFields ==
    {"startDate", "endDate", "enrollmentStartDate", "enrollmentEndDate"}

====
